---------------------------- MODULE Spec2Model ----------------------------
(***************************************************************************)
(* Model of the "Boundary Window" program (src/src/main.rs): the App       *)
(* lifecycle (resumed / window_event), the frame renderer (redraw), the    *)
(* glyph compositor (draw_text / draw_char) and the glyph atlas            *)
(* (LETTER_DATA / FONT_DATA / index_u8 / text_to_bitmap).                  *)
(*                                                                         *)
(* Machine integers: TLC's integers are themselves 32-bit, so every i32    *)
(* and u32 operation of the program is computed by operators that never    *)
(* leave the i32 range and that report, next to the wrapped result, whether*)
(* the operation overflowed.  A build with overflow checks (Rust's debug   *)
(* profile) panics on an overflow, a build without them (release profile)  *)
(* continues with the wrapped value; overflow_checks chooses the build.    *)
(***************************************************************************)
EXTENDS Integers, Sequences, FiniteSets, TLC

VARIABLES
  window,           \* App.window   : None | Some(window id)
  context,          \* App.context  : None | Some(id of the window it wraps)
  surface,          \* App.surface  : None | Some(id of the window it wraps)
  window_position,  \* App.window_position : [x, y]   (i32, i32)
  monitor_size,     \* App.monitor_size    : [width, height] (u32, u32)
  monitors,         \* platform: the monitors listed by available_monitors()
  inner_size,       \* platform: what window.inner_size() answers
  buffer,           \* the surface's pixel buffer, index 0 .. len-1
  frame,            \* the locals of the last redraw / draw call (see redraw)
  steps,            \* the steps the last handler went through, in order
  event,            \* the last event delivered to the App
  created,          \* how many windows were created so far
  panicked,         \* the process aborted in a panic
  exited,           \* event_loop.exit() was called
  overflow_checks   \* build profile: TRUE = overflow panics, FALSE = wraps

vars == <<window, context, surface, window_position, monitor_size, monitors,
          inner_size, buffer, frame, steps, event, created, panicked,
          exited, overflow_checks>>

---------------------------------------------------------------------------
(* Machine arithmetic                                                      *)

MaxI32 == 2147483647
MinI32 == -MaxI32 - 1
Limb == 65536

\* a + b in i32: v is the two's-complement result, of says it overflowed.
AddI32(a, b) ==
  IF b > 0 /\ a > MaxI32 - b
    THEN [v |-> (a - MaxI32 - 1) + (b - MaxI32 - 1), of |-> TRUE]
    ELSE IF b < 0 /\ a < MinI32 - b
      THEN [v |-> (a + MaxI32 + 1) + (b + MaxI32 + 1), of |-> TRUE]
      ELSE [v |-> a + b, of |-> FALSE]

\* a - b in i32.
SubI32(a, b) ==
  IF b < 0 /\ a > MaxI32 + b
    THEN [v |-> (a - MaxI32 - 1) - (b + MaxI32 + 1), of |-> TRUE]
    ELSE IF b > 0 /\ a < MinI32 + b
      THEN [v |-> (a + MaxI32 + 1) - (b - MaxI32 - 1), of |-> TRUE]
      ELSE [v |-> a - b, of |-> FALSE]

\* (py as u32 * buffer_width + px as u32) in u32, for 0 <= py, 0 <= px and
\* buffer_width < 2^15.  The result is hi * 2^16 + lo; of says that the
\* multiplication or the addition overflowed 32 bits.
MulAddU32(py, buffer_width, px) ==
  LET lowprod == (py % Limb) * buffer_width
      hiprod  == (py \div Limb) * buffer_width + (lowprod \div Limb)
      lowsum  == (lowprod % Limb) + (px % Limb)
      hisum   == (hiprod % Limb) + (px \div Limb) + (lowsum \div Limb)
  IN  [hi |-> hisum % Limb, lo |-> lowsum % Limb,
       of |-> hiprod >= Limb \/ hisum >= Limb]

\* idx < buffer.len() for idx = hi * 2^16 + lo  (idx as usize zero-extends).
IdxBelow(idx, len) ==
  /\ idx.hi <= len \div Limb
  /\ idx.hi * Limb + idx.lo < len

---------------------------------------------------------------------------
(* Glyph atlas                                                             *)

LETTER_DATA ==
  << 65, 66, 67, 68, 69, 70, 71, 72, 73, 74, 75, 76, 77,
     78, 79, 80, 81, 82, 83, 84, 85, 86, 87, 88, 89, 90,
     97, 98, 99, 100, 101, 102, 103, 104, 105, 106, 107, 108, 109,
     110, 111, 112, 113, 114, 115, 116, 117, 118, 119, 120, 121, 122,
     123, 125, 95, 32 >>

FONT_DATA ==
  <<
    <<
      <<FALSE, TRUE, TRUE, TRUE, FALSE>>,
      <<TRUE, FALSE, FALSE, FALSE, TRUE>>,
      <<TRUE, FALSE, FALSE, FALSE, TRUE>>,
      <<TRUE, FALSE, FALSE, FALSE, TRUE>>,
      <<TRUE, TRUE, TRUE, TRUE, TRUE>>,
      <<TRUE, FALSE, FALSE, FALSE, TRUE>>,
      <<TRUE, FALSE, FALSE, FALSE, TRUE>>,
      <<FALSE, FALSE, FALSE, FALSE, FALSE>>
    >>,
    <<
      <<TRUE, TRUE, TRUE, TRUE, FALSE>>,
      <<TRUE, FALSE, FALSE, FALSE, TRUE>>,
      <<TRUE, FALSE, FALSE, FALSE, TRUE>>,
      <<TRUE, TRUE, TRUE, TRUE, FALSE>>,
      <<TRUE, FALSE, FALSE, FALSE, TRUE>>,
      <<TRUE, FALSE, FALSE, FALSE, TRUE>>,
      <<TRUE, TRUE, TRUE, TRUE, FALSE>>,
      <<FALSE, FALSE, FALSE, FALSE, FALSE>>
    >>,
    <<
      <<FALSE, TRUE, TRUE, TRUE, FALSE>>,
      <<TRUE, FALSE, FALSE, FALSE, TRUE>>,
      <<TRUE, FALSE, FALSE, FALSE, FALSE>>,
      <<TRUE, FALSE, FALSE, FALSE, FALSE>>,
      <<TRUE, FALSE, FALSE, FALSE, FALSE>>,
      <<TRUE, FALSE, FALSE, FALSE, TRUE>>,
      <<FALSE, TRUE, TRUE, TRUE, FALSE>>,
      <<FALSE, FALSE, FALSE, FALSE, FALSE>>
    >>,
    <<
      <<TRUE, TRUE, TRUE, FALSE, FALSE>>,
      <<TRUE, FALSE, FALSE, TRUE, FALSE>>,
      <<TRUE, FALSE, FALSE, FALSE, TRUE>>,
      <<TRUE, FALSE, FALSE, FALSE, TRUE>>,
      <<TRUE, FALSE, FALSE, FALSE, TRUE>>,
      <<TRUE, FALSE, FALSE, TRUE, FALSE>>,
      <<TRUE, TRUE, TRUE, FALSE, FALSE>>,
      <<FALSE, FALSE, FALSE, FALSE, FALSE>>
    >>,
    <<
      <<TRUE, TRUE, TRUE, TRUE, TRUE>>,
      <<TRUE, FALSE, FALSE, FALSE, FALSE>>,
      <<TRUE, FALSE, FALSE, FALSE, FALSE>>,
      <<TRUE, TRUE, TRUE, TRUE, FALSE>>,
      <<TRUE, FALSE, FALSE, FALSE, FALSE>>,
      <<TRUE, FALSE, FALSE, FALSE, FALSE>>,
      <<TRUE, TRUE, TRUE, TRUE, TRUE>>,
      <<FALSE, FALSE, FALSE, FALSE, FALSE>>
    >>,
    <<
      <<TRUE, TRUE, TRUE, TRUE, TRUE>>,
      <<TRUE, FALSE, FALSE, FALSE, FALSE>>,
      <<TRUE, FALSE, FALSE, FALSE, FALSE>>,
      <<TRUE, TRUE, TRUE, TRUE, FALSE>>,
      <<TRUE, FALSE, FALSE, FALSE, FALSE>>,
      <<TRUE, FALSE, FALSE, FALSE, FALSE>>,
      <<TRUE, FALSE, FALSE, FALSE, FALSE>>,
      <<FALSE, FALSE, FALSE, FALSE, FALSE>>
    >>,
    <<
      <<FALSE, TRUE, TRUE, TRUE, FALSE>>,
      <<TRUE, FALSE, FALSE, FALSE, TRUE>>,
      <<TRUE, FALSE, FALSE, FALSE, FALSE>>,
      <<TRUE, FALSE, TRUE, TRUE, TRUE>>,
      <<TRUE, FALSE, FALSE, FALSE, TRUE>>,
      <<TRUE, FALSE, FALSE, FALSE, TRUE>>,
      <<FALSE, TRUE, TRUE, TRUE, FALSE>>,
      <<FALSE, FALSE, FALSE, FALSE, FALSE>>
    >>,
    <<
      <<TRUE, FALSE, FALSE, FALSE, TRUE>>,
      <<TRUE, FALSE, FALSE, FALSE, TRUE>>,
      <<TRUE, FALSE, FALSE, FALSE, TRUE>>,
      <<TRUE, TRUE, TRUE, TRUE, TRUE>>,
      <<TRUE, FALSE, FALSE, FALSE, TRUE>>,
      <<TRUE, FALSE, FALSE, FALSE, TRUE>>,
      <<TRUE, FALSE, FALSE, FALSE, TRUE>>,
      <<FALSE, FALSE, FALSE, FALSE, FALSE>>
    >>,
    <<
      <<FALSE, TRUE, TRUE, TRUE, FALSE>>,
      <<FALSE, FALSE, TRUE, FALSE, FALSE>>,
      <<FALSE, FALSE, TRUE, FALSE, FALSE>>,
      <<FALSE, FALSE, TRUE, FALSE, FALSE>>,
      <<FALSE, FALSE, TRUE, FALSE, FALSE>>,
      <<FALSE, FALSE, TRUE, FALSE, FALSE>>,
      <<FALSE, TRUE, TRUE, TRUE, FALSE>>,
      <<FALSE, FALSE, FALSE, FALSE, FALSE>>
    >>,
    <<
      <<FALSE, FALSE, FALSE, FALSE, TRUE>>,
      <<FALSE, FALSE, FALSE, FALSE, TRUE>>,
      <<FALSE, FALSE, FALSE, FALSE, TRUE>>,
      <<FALSE, FALSE, FALSE, FALSE, TRUE>>,
      <<FALSE, FALSE, FALSE, FALSE, TRUE>>,
      <<TRUE, FALSE, FALSE, FALSE, TRUE>>,
      <<FALSE, TRUE, TRUE, TRUE, FALSE>>,
      <<FALSE, FALSE, FALSE, FALSE, FALSE>>
    >>,
    <<
      <<TRUE, FALSE, FALSE, FALSE, TRUE>>,
      <<TRUE, FALSE, FALSE, TRUE, FALSE>>,
      <<TRUE, FALSE, TRUE, FALSE, FALSE>>,
      <<TRUE, TRUE, FALSE, FALSE, FALSE>>,
      <<TRUE, FALSE, TRUE, FALSE, FALSE>>,
      <<TRUE, FALSE, FALSE, TRUE, FALSE>>,
      <<TRUE, FALSE, FALSE, FALSE, TRUE>>,
      <<FALSE, FALSE, FALSE, FALSE, FALSE>>
    >>,
    <<
      <<TRUE, FALSE, FALSE, FALSE, FALSE>>,
      <<TRUE, FALSE, FALSE, FALSE, FALSE>>,
      <<TRUE, FALSE, FALSE, FALSE, FALSE>>,
      <<TRUE, FALSE, FALSE, FALSE, FALSE>>,
      <<TRUE, FALSE, FALSE, FALSE, FALSE>>,
      <<TRUE, FALSE, FALSE, FALSE, FALSE>>,
      <<TRUE, TRUE, TRUE, TRUE, TRUE>>,
      <<FALSE, FALSE, FALSE, FALSE, FALSE>>
    >>,
    <<
      <<TRUE, FALSE, FALSE, FALSE, TRUE>>,
      <<TRUE, TRUE, FALSE, TRUE, TRUE>>,
      <<TRUE, FALSE, TRUE, FALSE, TRUE>>,
      <<TRUE, FALSE, FALSE, FALSE, TRUE>>,
      <<TRUE, FALSE, FALSE, FALSE, TRUE>>,
      <<TRUE, FALSE, FALSE, FALSE, TRUE>>,
      <<TRUE, FALSE, FALSE, FALSE, TRUE>>,
      <<FALSE, FALSE, FALSE, FALSE, FALSE>>
    >>,
    <<
      <<TRUE, FALSE, FALSE, FALSE, TRUE>>,
      <<TRUE, TRUE, FALSE, FALSE, TRUE>>,
      <<TRUE, FALSE, TRUE, FALSE, TRUE>>,
      <<TRUE, FALSE, FALSE, TRUE, TRUE>>,
      <<TRUE, FALSE, FALSE, FALSE, TRUE>>,
      <<TRUE, FALSE, FALSE, FALSE, TRUE>>,
      <<TRUE, FALSE, FALSE, FALSE, TRUE>>,
      <<FALSE, FALSE, FALSE, FALSE, FALSE>>
    >>,
    <<
      <<FALSE, TRUE, TRUE, TRUE, FALSE>>,
      <<TRUE, FALSE, FALSE, FALSE, TRUE>>,
      <<TRUE, FALSE, FALSE, FALSE, TRUE>>,
      <<TRUE, FALSE, FALSE, FALSE, TRUE>>,
      <<TRUE, FALSE, FALSE, FALSE, TRUE>>,
      <<TRUE, FALSE, FALSE, FALSE, TRUE>>,
      <<FALSE, TRUE, TRUE, TRUE, FALSE>>,
      <<FALSE, FALSE, FALSE, FALSE, FALSE>>
    >>,
    <<
      <<TRUE, TRUE, TRUE, TRUE, FALSE>>,
      <<TRUE, FALSE, FALSE, FALSE, TRUE>>,
      <<TRUE, FALSE, FALSE, FALSE, TRUE>>,
      <<TRUE, TRUE, TRUE, TRUE, FALSE>>,
      <<TRUE, FALSE, FALSE, FALSE, FALSE>>,
      <<TRUE, FALSE, FALSE, FALSE, FALSE>>,
      <<TRUE, FALSE, FALSE, FALSE, FALSE>>,
      <<FALSE, FALSE, FALSE, FALSE, FALSE>>
    >>,
    <<
      <<FALSE, TRUE, TRUE, TRUE, FALSE>>,
      <<TRUE, FALSE, FALSE, FALSE, TRUE>>,
      <<TRUE, FALSE, FALSE, FALSE, TRUE>>,
      <<TRUE, FALSE, FALSE, FALSE, TRUE>>,
      <<TRUE, FALSE, TRUE, FALSE, TRUE>>,
      <<TRUE, FALSE, FALSE, TRUE, FALSE>>,
      <<FALSE, TRUE, TRUE, FALSE, TRUE>>,
      <<FALSE, FALSE, FALSE, FALSE, FALSE>>
    >>,
    <<
      <<TRUE, TRUE, TRUE, TRUE, FALSE>>,
      <<TRUE, FALSE, FALSE, FALSE, TRUE>>,
      <<TRUE, FALSE, FALSE, FALSE, TRUE>>,
      <<TRUE, TRUE, TRUE, TRUE, FALSE>>,
      <<TRUE, FALSE, TRUE, FALSE, FALSE>>,
      <<TRUE, FALSE, FALSE, TRUE, FALSE>>,
      <<TRUE, FALSE, FALSE, FALSE, TRUE>>,
      <<FALSE, FALSE, FALSE, FALSE, FALSE>>
    >>,
    <<
      <<FALSE, TRUE, TRUE, TRUE, FALSE>>,
      <<TRUE, FALSE, FALSE, FALSE, TRUE>>,
      <<TRUE, FALSE, FALSE, FALSE, FALSE>>,
      <<FALSE, TRUE, TRUE, TRUE, FALSE>>,
      <<FALSE, FALSE, FALSE, FALSE, TRUE>>,
      <<TRUE, FALSE, FALSE, FALSE, TRUE>>,
      <<FALSE, TRUE, TRUE, TRUE, FALSE>>,
      <<FALSE, FALSE, FALSE, FALSE, FALSE>>
    >>,
    <<
      <<TRUE, TRUE, TRUE, TRUE, TRUE>>,
      <<FALSE, FALSE, TRUE, FALSE, FALSE>>,
      <<FALSE, FALSE, TRUE, FALSE, FALSE>>,
      <<FALSE, FALSE, TRUE, FALSE, FALSE>>,
      <<FALSE, FALSE, TRUE, FALSE, FALSE>>,
      <<FALSE, FALSE, TRUE, FALSE, FALSE>>,
      <<FALSE, FALSE, TRUE, FALSE, FALSE>>,
      <<FALSE, FALSE, FALSE, FALSE, FALSE>>
    >>,
    <<
      <<TRUE, FALSE, FALSE, FALSE, TRUE>>,
      <<TRUE, FALSE, FALSE, FALSE, TRUE>>,
      <<TRUE, FALSE, FALSE, FALSE, TRUE>>,
      <<TRUE, FALSE, FALSE, FALSE, TRUE>>,
      <<TRUE, FALSE, FALSE, FALSE, TRUE>>,
      <<TRUE, FALSE, FALSE, FALSE, TRUE>>,
      <<FALSE, TRUE, TRUE, TRUE, FALSE>>,
      <<FALSE, FALSE, FALSE, FALSE, FALSE>>
    >>,
    <<
      <<TRUE, FALSE, FALSE, FALSE, TRUE>>,
      <<TRUE, FALSE, FALSE, FALSE, TRUE>>,
      <<TRUE, FALSE, FALSE, FALSE, TRUE>>,
      <<TRUE, FALSE, FALSE, FALSE, TRUE>>,
      <<FALSE, TRUE, FALSE, TRUE, FALSE>>,
      <<FALSE, TRUE, FALSE, TRUE, FALSE>>,
      <<FALSE, FALSE, TRUE, FALSE, FALSE>>,
      <<FALSE, FALSE, FALSE, FALSE, FALSE>>
    >>,
    <<
      <<TRUE, FALSE, FALSE, FALSE, TRUE>>,
      <<TRUE, FALSE, FALSE, FALSE, TRUE>>,
      <<TRUE, FALSE, FALSE, FALSE, TRUE>>,
      <<TRUE, FALSE, TRUE, FALSE, TRUE>>,
      <<TRUE, FALSE, TRUE, FALSE, TRUE>>,
      <<TRUE, TRUE, FALSE, TRUE, TRUE>>,
      <<TRUE, FALSE, FALSE, FALSE, TRUE>>,
      <<FALSE, FALSE, FALSE, FALSE, FALSE>>
    >>,
    <<
      <<TRUE, FALSE, FALSE, FALSE, TRUE>>,
      <<FALSE, TRUE, FALSE, TRUE, FALSE>>,
      <<FALSE, FALSE, TRUE, FALSE, FALSE>>,
      <<FALSE, FALSE, TRUE, FALSE, FALSE>>,
      <<FALSE, FALSE, TRUE, FALSE, FALSE>>,
      <<FALSE, TRUE, FALSE, TRUE, FALSE>>,
      <<TRUE, FALSE, FALSE, FALSE, TRUE>>,
      <<FALSE, FALSE, FALSE, FALSE, FALSE>>
    >>,
    <<
      <<TRUE, FALSE, FALSE, FALSE, TRUE>>,
      <<FALSE, TRUE, FALSE, TRUE, FALSE>>,
      <<FALSE, FALSE, TRUE, FALSE, FALSE>>,
      <<FALSE, FALSE, TRUE, FALSE, FALSE>>,
      <<FALSE, FALSE, TRUE, FALSE, FALSE>>,
      <<FALSE, FALSE, TRUE, FALSE, FALSE>>,
      <<FALSE, FALSE, TRUE, FALSE, FALSE>>,
      <<FALSE, FALSE, FALSE, FALSE, FALSE>>
    >>,
    <<
      <<TRUE, TRUE, TRUE, TRUE, TRUE>>,
      <<FALSE, FALSE, FALSE, FALSE, TRUE>>,
      <<FALSE, FALSE, FALSE, TRUE, FALSE>>,
      <<FALSE, FALSE, TRUE, FALSE, FALSE>>,
      <<FALSE, TRUE, FALSE, FALSE, FALSE>>,
      <<TRUE, FALSE, FALSE, FALSE, FALSE>>,
      <<TRUE, TRUE, TRUE, TRUE, TRUE>>,
      <<FALSE, FALSE, FALSE, FALSE, FALSE>>
    >>,
    <<
      <<FALSE, FALSE, FALSE, FALSE, FALSE>>,
      <<FALSE, FALSE, FALSE, FALSE, FALSE>>,
      <<FALSE, TRUE, TRUE, TRUE, FALSE>>,
      <<FALSE, FALSE, FALSE, FALSE, TRUE>>,
      <<FALSE, TRUE, TRUE, TRUE, TRUE>>,
      <<TRUE, FALSE, FALSE, FALSE, TRUE>>,
      <<FALSE, TRUE, TRUE, TRUE, TRUE>>,
      <<FALSE, FALSE, FALSE, FALSE, FALSE>>
    >>,
    <<
      <<TRUE, FALSE, FALSE, FALSE, FALSE>>,
      <<TRUE, FALSE, FALSE, FALSE, FALSE>>,
      <<TRUE, TRUE, TRUE, TRUE, FALSE>>,
      <<TRUE, FALSE, FALSE, FALSE, TRUE>>,
      <<TRUE, FALSE, FALSE, FALSE, TRUE>>,
      <<TRUE, FALSE, FALSE, FALSE, TRUE>>,
      <<TRUE, TRUE, TRUE, TRUE, FALSE>>,
      <<FALSE, FALSE, FALSE, FALSE, FALSE>>
    >>,
    <<
      <<FALSE, FALSE, FALSE, FALSE, FALSE>>,
      <<FALSE, FALSE, FALSE, FALSE, FALSE>>,
      <<FALSE, TRUE, TRUE, TRUE, FALSE>>,
      <<TRUE, FALSE, FALSE, FALSE, TRUE>>,
      <<TRUE, FALSE, FALSE, FALSE, FALSE>>,
      <<TRUE, FALSE, FALSE, FALSE, TRUE>>,
      <<FALSE, TRUE, TRUE, TRUE, FALSE>>,
      <<FALSE, FALSE, FALSE, FALSE, FALSE>>
    >>,
    <<
      <<FALSE, FALSE, FALSE, FALSE, TRUE>>,
      <<FALSE, FALSE, FALSE, FALSE, TRUE>>,
      <<FALSE, TRUE, TRUE, TRUE, TRUE>>,
      <<TRUE, FALSE, FALSE, FALSE, TRUE>>,
      <<TRUE, FALSE, FALSE, FALSE, TRUE>>,
      <<TRUE, FALSE, FALSE, FALSE, TRUE>>,
      <<FALSE, TRUE, TRUE, TRUE, TRUE>>,
      <<FALSE, FALSE, FALSE, FALSE, FALSE>>
    >>,
    <<
      <<FALSE, FALSE, FALSE, FALSE, FALSE>>,
      <<FALSE, FALSE, FALSE, FALSE, FALSE>>,
      <<FALSE, TRUE, TRUE, TRUE, FALSE>>,
      <<TRUE, FALSE, FALSE, FALSE, TRUE>>,
      <<TRUE, TRUE, TRUE, TRUE, TRUE>>,
      <<TRUE, FALSE, FALSE, FALSE, FALSE>>,
      <<FALSE, TRUE, TRUE, TRUE, FALSE>>,
      <<FALSE, FALSE, FALSE, FALSE, FALSE>>
    >>,
    <<
      <<FALSE, FALSE, TRUE, TRUE, FALSE>>,
      <<FALSE, TRUE, FALSE, FALSE, TRUE>>,
      <<FALSE, TRUE, FALSE, FALSE, FALSE>>,
      <<TRUE, TRUE, TRUE, FALSE, FALSE>>,
      <<FALSE, TRUE, FALSE, FALSE, FALSE>>,
      <<FALSE, TRUE, FALSE, FALSE, FALSE>>,
      <<FALSE, TRUE, FALSE, FALSE, FALSE>>,
      <<FALSE, FALSE, FALSE, FALSE, FALSE>>
    >>,
    <<
      <<FALSE, FALSE, FALSE, FALSE, FALSE>>,
      <<FALSE, FALSE, FALSE, FALSE, FALSE>>,
      <<FALSE, TRUE, TRUE, TRUE, TRUE>>,
      <<TRUE, FALSE, FALSE, FALSE, TRUE>>,
      <<TRUE, FALSE, FALSE, FALSE, TRUE>>,
      <<FALSE, TRUE, TRUE, TRUE, TRUE>>,
      <<FALSE, FALSE, FALSE, FALSE, TRUE>>,
      <<FALSE, TRUE, TRUE, TRUE, FALSE>>
    >>,
    <<
      <<TRUE, FALSE, FALSE, FALSE, FALSE>>,
      <<TRUE, FALSE, FALSE, FALSE, FALSE>>,
      <<TRUE, TRUE, TRUE, TRUE, FALSE>>,
      <<TRUE, FALSE, FALSE, FALSE, TRUE>>,
      <<TRUE, FALSE, FALSE, FALSE, TRUE>>,
      <<TRUE, FALSE, FALSE, FALSE, TRUE>>,
      <<TRUE, FALSE, FALSE, FALSE, TRUE>>,
      <<FALSE, FALSE, FALSE, FALSE, FALSE>>
    >>,
    <<
      <<FALSE, FALSE, TRUE, FALSE, FALSE>>,
      <<FALSE, FALSE, FALSE, FALSE, FALSE>>,
      <<FALSE, TRUE, TRUE, FALSE, FALSE>>,
      <<FALSE, FALSE, TRUE, FALSE, FALSE>>,
      <<FALSE, FALSE, TRUE, FALSE, FALSE>>,
      <<FALSE, FALSE, TRUE, FALSE, FALSE>>,
      <<FALSE, TRUE, TRUE, TRUE, FALSE>>,
      <<FALSE, FALSE, FALSE, FALSE, FALSE>>
    >>,
    <<
      <<FALSE, FALSE, FALSE, TRUE, FALSE>>,
      <<FALSE, FALSE, FALSE, FALSE, FALSE>>,
      <<FALSE, FALSE, TRUE, TRUE, FALSE>>,
      <<FALSE, FALSE, FALSE, TRUE, FALSE>>,
      <<FALSE, FALSE, FALSE, TRUE, FALSE>>,
      <<FALSE, FALSE, FALSE, TRUE, FALSE>>,
      <<TRUE, FALSE, FALSE, TRUE, FALSE>>,
      <<FALSE, TRUE, TRUE, FALSE, FALSE>>
    >>,
    <<
      <<TRUE, FALSE, FALSE, FALSE, FALSE>>,
      <<TRUE, FALSE, FALSE, FALSE, FALSE>>,
      <<TRUE, FALSE, FALSE, TRUE, FALSE>>,
      <<TRUE, FALSE, TRUE, FALSE, FALSE>>,
      <<TRUE, TRUE, FALSE, FALSE, FALSE>>,
      <<TRUE, FALSE, TRUE, FALSE, FALSE>>,
      <<TRUE, FALSE, FALSE, TRUE, FALSE>>,
      <<FALSE, FALSE, FALSE, FALSE, FALSE>>
    >>,
    <<
      <<FALSE, TRUE, TRUE, FALSE, FALSE>>,
      <<FALSE, FALSE, TRUE, FALSE, FALSE>>,
      <<FALSE, FALSE, TRUE, FALSE, FALSE>>,
      <<FALSE, FALSE, TRUE, FALSE, FALSE>>,
      <<FALSE, FALSE, TRUE, FALSE, FALSE>>,
      <<FALSE, FALSE, TRUE, FALSE, FALSE>>,
      <<FALSE, TRUE, TRUE, TRUE, FALSE>>,
      <<FALSE, FALSE, FALSE, FALSE, FALSE>>
    >>,
    <<
      <<FALSE, FALSE, FALSE, FALSE, FALSE>>,
      <<FALSE, FALSE, FALSE, FALSE, FALSE>>,
      <<TRUE, TRUE, FALSE, TRUE, FALSE>>,
      <<TRUE, FALSE, TRUE, FALSE, TRUE>>,
      <<TRUE, FALSE, TRUE, FALSE, TRUE>>,
      <<TRUE, FALSE, TRUE, FALSE, TRUE>>,
      <<TRUE, FALSE, TRUE, FALSE, TRUE>>,
      <<FALSE, FALSE, FALSE, FALSE, FALSE>>
    >>,
    <<
      <<FALSE, FALSE, FALSE, FALSE, FALSE>>,
      <<FALSE, FALSE, FALSE, FALSE, FALSE>>,
      <<TRUE, TRUE, TRUE, TRUE, FALSE>>,
      <<TRUE, FALSE, FALSE, FALSE, TRUE>>,
      <<TRUE, FALSE, FALSE, FALSE, TRUE>>,
      <<TRUE, FALSE, FALSE, FALSE, TRUE>>,
      <<TRUE, FALSE, FALSE, FALSE, TRUE>>,
      <<FALSE, FALSE, FALSE, FALSE, FALSE>>
    >>,
    <<
      <<FALSE, FALSE, FALSE, FALSE, FALSE>>,
      <<FALSE, FALSE, FALSE, FALSE, FALSE>>,
      <<FALSE, TRUE, TRUE, TRUE, FALSE>>,
      <<TRUE, FALSE, FALSE, FALSE, TRUE>>,
      <<TRUE, FALSE, FALSE, FALSE, TRUE>>,
      <<TRUE, FALSE, FALSE, FALSE, TRUE>>,
      <<FALSE, TRUE, TRUE, TRUE, FALSE>>,
      <<FALSE, FALSE, FALSE, FALSE, FALSE>>
    >>,
    <<
      <<FALSE, FALSE, FALSE, FALSE, FALSE>>,
      <<FALSE, FALSE, FALSE, FALSE, FALSE>>,
      <<TRUE, TRUE, TRUE, TRUE, FALSE>>,
      <<TRUE, FALSE, FALSE, FALSE, TRUE>>,
      <<TRUE, FALSE, FALSE, FALSE, TRUE>>,
      <<TRUE, TRUE, TRUE, TRUE, FALSE>>,
      <<TRUE, FALSE, FALSE, FALSE, FALSE>>,
      <<TRUE, FALSE, FALSE, FALSE, FALSE>>
    >>,
    <<
      <<FALSE, FALSE, FALSE, FALSE, FALSE>>,
      <<FALSE, FALSE, FALSE, FALSE, FALSE>>,
      <<FALSE, TRUE, TRUE, TRUE, TRUE>>,
      <<TRUE, FALSE, FALSE, FALSE, TRUE>>,
      <<TRUE, FALSE, FALSE, FALSE, TRUE>>,
      <<FALSE, TRUE, TRUE, TRUE, TRUE>>,
      <<FALSE, FALSE, FALSE, FALSE, TRUE>>,
      <<FALSE, FALSE, FALSE, FALSE, TRUE>>
    >>,
    <<
      <<FALSE, FALSE, FALSE, FALSE, FALSE>>,
      <<FALSE, FALSE, FALSE, FALSE, FALSE>>,
      <<TRUE, FALSE, TRUE, TRUE, FALSE>>,
      <<TRUE, TRUE, FALSE, FALSE, TRUE>>,
      <<TRUE, FALSE, FALSE, FALSE, FALSE>>,
      <<TRUE, FALSE, FALSE, FALSE, FALSE>>,
      <<TRUE, FALSE, FALSE, FALSE, FALSE>>,
      <<FALSE, FALSE, FALSE, FALSE, FALSE>>
    >>,
    <<
      <<FALSE, FALSE, FALSE, FALSE, FALSE>>,
      <<FALSE, FALSE, FALSE, FALSE, FALSE>>,
      <<FALSE, TRUE, TRUE, TRUE, FALSE>>,
      <<TRUE, FALSE, FALSE, FALSE, FALSE>>,
      <<FALSE, TRUE, TRUE, TRUE, FALSE>>,
      <<FALSE, FALSE, FALSE, FALSE, TRUE>>,
      <<TRUE, TRUE, TRUE, TRUE, FALSE>>,
      <<FALSE, FALSE, FALSE, FALSE, FALSE>>
    >>,
    <<
      <<FALSE, TRUE, FALSE, FALSE, FALSE>>,
      <<FALSE, TRUE, FALSE, FALSE, FALSE>>,
      <<TRUE, TRUE, TRUE, FALSE, FALSE>>,
      <<FALSE, TRUE, FALSE, FALSE, FALSE>>,
      <<FALSE, TRUE, FALSE, FALSE, FALSE>>,
      <<FALSE, TRUE, FALSE, FALSE, TRUE>>,
      <<FALSE, FALSE, TRUE, TRUE, FALSE>>,
      <<FALSE, FALSE, FALSE, FALSE, FALSE>>
    >>,
    <<
      <<FALSE, FALSE, FALSE, FALSE, FALSE>>,
      <<FALSE, FALSE, FALSE, FALSE, FALSE>>,
      <<TRUE, FALSE, FALSE, FALSE, TRUE>>,
      <<TRUE, FALSE, FALSE, FALSE, TRUE>>,
      <<TRUE, FALSE, FALSE, FALSE, TRUE>>,
      <<TRUE, FALSE, FALSE, FALSE, TRUE>>,
      <<FALSE, TRUE, TRUE, TRUE, TRUE>>,
      <<FALSE, FALSE, FALSE, FALSE, FALSE>>
    >>,
    <<
      <<FALSE, FALSE, FALSE, FALSE, FALSE>>,
      <<FALSE, FALSE, FALSE, FALSE, FALSE>>,
      <<TRUE, FALSE, FALSE, FALSE, TRUE>>,
      <<TRUE, FALSE, FALSE, FALSE, TRUE>>,
      <<FALSE, TRUE, FALSE, TRUE, FALSE>>,
      <<FALSE, TRUE, FALSE, TRUE, FALSE>>,
      <<FALSE, FALSE, TRUE, FALSE, FALSE>>,
      <<FALSE, FALSE, FALSE, FALSE, FALSE>>
    >>,
    <<
      <<FALSE, FALSE, FALSE, FALSE, FALSE>>,
      <<FALSE, FALSE, FALSE, FALSE, FALSE>>,
      <<TRUE, FALSE, FALSE, FALSE, TRUE>>,
      <<TRUE, FALSE, TRUE, FALSE, TRUE>>,
      <<TRUE, FALSE, TRUE, FALSE, TRUE>>,
      <<TRUE, FALSE, TRUE, FALSE, TRUE>>,
      <<FALSE, TRUE, FALSE, TRUE, FALSE>>,
      <<FALSE, FALSE, FALSE, FALSE, FALSE>>
    >>,
    <<
      <<FALSE, FALSE, FALSE, FALSE, FALSE>>,
      <<FALSE, FALSE, FALSE, FALSE, FALSE>>,
      <<TRUE, FALSE, FALSE, FALSE, TRUE>>,
      <<FALSE, TRUE, FALSE, TRUE, FALSE>>,
      <<FALSE, FALSE, TRUE, FALSE, FALSE>>,
      <<FALSE, TRUE, FALSE, TRUE, FALSE>>,
      <<TRUE, FALSE, FALSE, FALSE, TRUE>>,
      <<FALSE, FALSE, FALSE, FALSE, FALSE>>
    >>,
    <<
      <<FALSE, FALSE, FALSE, FALSE, FALSE>>,
      <<FALSE, FALSE, FALSE, FALSE, FALSE>>,
      <<TRUE, FALSE, FALSE, FALSE, TRUE>>,
      <<TRUE, FALSE, FALSE, FALSE, TRUE>>,
      <<TRUE, FALSE, FALSE, FALSE, TRUE>>,
      <<FALSE, TRUE, TRUE, TRUE, TRUE>>,
      <<FALSE, FALSE, FALSE, FALSE, TRUE>>,
      <<FALSE, TRUE, TRUE, TRUE, FALSE>>
    >>,
    <<
      <<FALSE, FALSE, FALSE, FALSE, FALSE>>,
      <<FALSE, FALSE, FALSE, FALSE, FALSE>>,
      <<TRUE, TRUE, TRUE, TRUE, TRUE>>,
      <<FALSE, FALSE, FALSE, TRUE, FALSE>>,
      <<FALSE, FALSE, TRUE, FALSE, FALSE>>,
      <<FALSE, TRUE, FALSE, FALSE, FALSE>>,
      <<TRUE, TRUE, TRUE, TRUE, TRUE>>,
      <<FALSE, FALSE, FALSE, FALSE, FALSE>>
    >>,
    <<
      <<FALSE, FALSE, TRUE, TRUE, FALSE>>,
      <<FALSE, TRUE, FALSE, FALSE, FALSE>>,
      <<FALSE, TRUE, FALSE, FALSE, FALSE>>,
      <<TRUE, FALSE, FALSE, FALSE, FALSE>>,
      <<FALSE, TRUE, FALSE, FALSE, FALSE>>,
      <<FALSE, TRUE, FALSE, FALSE, FALSE>>,
      <<FALSE, FALSE, TRUE, TRUE, FALSE>>,
      <<FALSE, FALSE, FALSE, FALSE, FALSE>>
    >>,
    <<
      <<FALSE, TRUE, TRUE, FALSE, FALSE>>,
      <<FALSE, FALSE, FALSE, TRUE, FALSE>>,
      <<FALSE, FALSE, FALSE, TRUE, FALSE>>,
      <<FALSE, FALSE, FALSE, FALSE, TRUE>>,
      <<FALSE, FALSE, FALSE, TRUE, FALSE>>,
      <<FALSE, FALSE, FALSE, TRUE, FALSE>>,
      <<FALSE, TRUE, TRUE, FALSE, FALSE>>,
      <<FALSE, FALSE, FALSE, FALSE, FALSE>>
    >>,
    <<
      <<FALSE, FALSE, FALSE, FALSE, FALSE>>,
      <<FALSE, FALSE, FALSE, FALSE, FALSE>>,
      <<FALSE, FALSE, FALSE, FALSE, FALSE>>,
      <<FALSE, FALSE, FALSE, FALSE, FALSE>>,
      <<FALSE, FALSE, FALSE, FALSE, FALSE>>,
      <<FALSE, FALSE, FALSE, FALSE, FALSE>>,
      <<TRUE, TRUE, TRUE, TRUE, TRUE>>,
      <<FALSE, FALSE, FALSE, FALSE, FALSE>>
    >>,
    <<
      <<FALSE, FALSE, FALSE, FALSE, FALSE>>,
      <<FALSE, FALSE, FALSE, FALSE, FALSE>>,
      <<FALSE, FALSE, FALSE, FALSE, FALSE>>,
      <<FALSE, FALSE, FALSE, FALSE, FALSE>>,
      <<FALSE, FALSE, FALSE, FALSE, FALSE>>,
      <<FALSE, FALSE, FALSE, FALSE, FALSE>>,
      <<FALSE, FALSE, FALSE, FALSE, FALSE>>,
      <<FALSE, FALSE, FALSE, FALSE, FALSE>>
    >>
  >>

\* Option<T>: None is the empty tuple, Some(v) the one-element tuple.
None == <<>>
Some(v) == <<v>>
is_none(opt) == opt = None
\* Option::unwrap of a Some; callers decide what a None does.
unwrap(opt) == opt[1]

\* index_u8: the first 0-based index i with arr[i] = element, or None.
RECURSIVE index_u8_from(_, _, _)
index_u8_from(arr, element, i) ==
  IF i < Len(arr)
    THEN IF arr[i + 1] = element THEN Some(i)
         ELSE index_u8_from(arr, element, i + 1)
    ELSE None

\* Variant of index_u8 whose search starts at the second element.
index_u8_skip(arr, element) == index_u8_from(arr, element, 1)

index_u8(arr, element) == index_u8_from(arr, element, 0)

\* "ictf{Teeheehee_you_found_me}" as bytes
MESSAGE ==
  << 105, 99, 116, 102, 123, 84, 101, 101, 104, 101, 101, 104, 101, 101,
     95, 121, 111, 117, 95, 102, 111, 117, 110, 100, 95, 109, 101, 125 >>

LEN == 28

\* string_to_bytes::<N>(s): Some(bytes) when s.len() = N, else None.
string_to_bytes(N, s) ==
  IF Len(s) = N THEN Some([i \in 1..N |-> s[i]]) ELSE None

TEXT_SOURCE == unwrap(string_to_bytes(LEN, MESSAGE))

BlankGlyph == [row \in 1..8 |-> [col \in 1..5 |-> FALSE]]

\* text_to_bitmap: the glyph of every byte of text, or None as soon as one
\* byte is not in LETTER_DATA.
RECURSIVE text_to_bitmap_from(_, _, _)
text_to_bitmap_from(text, result, i) ==
  IF i < Len(text)
    THEN LET char_index == index_u8(LETTER_DATA, text[i + 1])
         IN  IF char_index # None
               THEN text_to_bitmap_from(text,
                      [result EXCEPT
                         ![i + 1] = FONT_DATA[unwrap(char_index) + 1]],
                      i + 1)
               ELSE None
    ELSE Some(result)

text_to_bitmap(text) ==
  text_to_bitmap_from(text, [i \in 1..Len(text) |-> BlankGlyph], 0)

TEXT_BITMAPS == unwrap(text_to_bitmap(TEXT_SOURCE))

---------------------------------------------------------------------------
(* Palette                                                                 *)

\* 0xAARRGGBB as <<AA, RR, GG, BB>>
BLACK == <<255, 0, 0, 0>>
GREEN == <<255, 0, 255, 0>>
WHITE == <<255, 255, 255, 255>>
\* content of a freshly acquired buffer cell, before the renderer wrote it
STALE == <<0, 0, 0, 0>>

Palette == {BLACK, GREEN, WHITE}

---------------------------------------------------------------------------
(* Glyph compositing                                                       *)

SCALE == 3

\* The iterations of draw_char's four nested loops that reach the innermost
\* body, i.e. those of an ink cell: <<row, col, dy, dx>>.
InkIterations(char_data, scale) ==
  {it \in (0..7) \X (0..4) \X (0..(scale - 1)) \X (0..(scale - 1)) :
     char_data[it[1] + 1][it[2] + 1]}

\* Position of an iteration in the loops' order.
IterOrder(it, scale) == ((it[1] * 5 + it[2]) * scale + it[3]) * scale + it[4]

\* (a + b) + c in i32, given s = a + b.
ThenAdd(s, c) ==
  [v |-> AddI32(s.v, c).v, of |-> s.of \/ AddI32(s.v, c).of]

\* "if px >= 0 && py >= 0 && px < buffer_width as i32"
Inside(px, py, buffer_width) == px >= 0 /\ py >= 0 /\ px < buffer_width

\* The innermost body of draw_char once px and py are computed: inside is
\* the bounds test, idx the index (used only when inside holds).
PixelWrite(len, ord, px, py, inside, idx) ==
  [ord |-> ord, px |-> px.v, py |-> py.v,
   of |-> px.of \/ py.of \/ (inside /\ idx.of),
   write |-> inside /\ IdxBelow(idx, len),
   idx |-> IF inside /\ IdxBelow(idx, len) THEN idx.hi * Limb + idx.lo ELSE -1]

PixelAt(len, ord, px, py, buffer_width) ==
  PixelWrite(len, ord, px, py, Inside(px.v, py.v, buffer_width),
             MulAddU32(py.v, buffer_width, px.v))

\* One execution of the innermost body of draw_char, for iteration it:
\*   px = x + col * scale + dx,  py = y + row * scale + dy,
\*   if px >= 0 && py >= 0 && px < buffer_width { idx = py * width + px;
\*   if idx < buffer.len() { buffer[idx] = WHITE } }
\* of: an operation of this execution overflowed; write: it wrote cell idx.
DrawPixel(len, x, y, it, buffer_width, scale) ==
  PixelAt(len, IterOrder(it, scale),
          ThenAdd(AddI32(x, it[2] * scale), it[4]),
          ThenAdd(AddI32(y, it[1] * scale), it[3]),
          buffer_width)

\* Glyph origins for which draw_char is a no-op whatever the glyph, used by
\* the model to skip the iterations.  PxExact / PyExact: no px / py of the
\* glyph overflows.  The glyph misses when no panic is possible and either
\* every px fails px >= 0 && px < buffer_width or every py fails py >= 0, so
\* that no iteration reaches the index computation.
PxExact(x, scale) == x <= MaxI32 - 5 * scale
PyExact(y, scale) == y <= MaxI32 - 8 * scale

GlyphMisses(checks, x, y, buffer_width, scale) ==
  /\ checks => (PxExact(x, scale) /\ PyExact(y, scale))
  /\ \/ PxExact(x, scale) /\ (x + 5 * scale <= 0 \/ x >= buffer_width)
     \/ PyExact(y, scale) /\ y + 8 * scale <= 0

\* The least element of a non-empty set of integers.
Least(S) == CHOOSE o \in S : \A o2 \in S : o <= o2

\* With overflow checks the loops stop (panic) at the first execution that
\* overflows: the executions of pix that ran to completion.
Completed(checks, pix, bad) ==
  IF checks /\ bad # {}
    THEN {p \in pix : p.ord < Least({q.ord : q \in bad})}
    ELSE pix

\* The outcome of a loop nest whose completed executions are done.
Written(buf, done, panic, color) ==
  [buffer |-> [i \in DOMAIN buf |->
                 IF i \in {p.idx : p \in done} THEN color ELSE buf[i]],
   panicked |-> panic,
   writes |-> {[px |-> p.px, py |-> p.py, idx |-> p.idx] : p \in done}]

DrawnPixels(checks, buf, pix, bad) ==
  Written(buf, {p \in Completed(checks, pix, bad) : p.write},
          checks /\ bad # {}, WHITE)

DrawnGlyph(checks, buf, pix) ==
  DrawnPixels(checks, buf, pix, {p \in pix : p.of})

\* draw_char: the buffer after the call, whether the call panicked, and the
\* pixel writes it made (candidate (px, py) and the index written).
\* checks is the build profile (overflow checks on or off).
draw_char(checks, buf, x, y, char_data, buffer_width, scale) ==
  DrawnGlyph(checks, buf,
    IF GlyphMisses(checks, x, y, buffer_width, scale) THEN {}
    ELSE {DrawPixel(Cardinality(DOMAIN buf), x, y, it, buffer_width, scale) :
            it \in InkIterations(char_data, scale)})

\* The state of draw_text after character k was drawn with outcome c.
AfterChar(acc, k, c) ==
  [buffer |-> c.buffer,
   panicked |-> c.panicked,
   writes |-> acc.writes \cup
              {[k |-> k, px |-> w.px, py |-> w.py, idx |-> w.idx] :
                 w \in c.writes}]

\* One iteration of draw_text's loop: cx is x + offset_x.
DrawNextChar(checks, k, acc, cx, y, buffer_width) ==
  IF cx.of /\ checks
    THEN [acc EXCEPT !.panicked = TRUE]
    ELSE AfterChar(acc, k,
           draw_char(checks, acc.buffer, cx.v, y, TEXT_BITMAPS[k + 1],
                     buffer_width, SCALE))

\* draw_text from the character with index k on (offset_x = 6 * SCALE * k).
RECURSIVE draw_text_from(_, _, _, _, _, _, _)
draw_text_from(checks, k, offset_x, acc, x, y, buffer_width) ==
  IF k >= LEN \/ acc.panicked
    THEN acc
    ELSE draw_text_from(checks, k + 1, offset_x + 6 * SCALE,
           DrawNextChar(checks, k, acc, AddI32(x, offset_x), y, buffer_width),
           x, y, buffer_width)

\* draw_text: the buffer after the call, whether it panicked, and the pixel
\* writes it made, each with the index k of its character.
draw_text(checks, buf, x, y, buffer_width) ==
  draw_text_from(checks, 0, 0,
                 [buffer |-> buf, panicked |-> FALSE, writes |-> {}],
                 x, y, buffer_width)

---------------------------------------------------------------------------
(* Frame renderer                                                          *)

BOUNDARY_SIZE == 100

\* PhysicalPosition::default()
DefaultPosition == [x |-> 0, y |-> 0]

\* Variant of unwrap_or_default that falls back to the cached position.
unwrap_or_cached(query) ==
  IF is_none(query) THEN window_position ELSE unwrap(query)

\* Result<PhysicalPosition, _>::unwrap_or_default(); a failed query is None.
unwrap_or_default(query) ==
  IF is_none(query) THEN DefaultPosition ELSE unwrap(query)

\* Variant of Reconcile that trusts the cached position.
ReconcileKeep(current_pos, cached) == cached

\* "if current_pos != self.window_position { self.window_position =
\* current_pos }": the value of self.window_position afterwards.
Reconcile(current_pos, cached) ==
  IF current_pos # cached THEN current_pos ELSE cached

\* surface.resize(width, height) followed by surface.buffer_mut(): a buffer
\* of width * height cells whose content the renderer has not written.
acquire(width, height) == [i \in 0..(width * height - 1) |-> STALE]

\* Variant of fill that leaves the acquired buffer as it is.
fill_skip(buf) == buf

\* "for pixel in buffer.iter_mut() { *pixel = 0xFF000000 }"
fill(buf) == [i \in DOMAIN buf |-> BLACK]

\* Variant of DrawGreen without the top-edge test.
DrawGreenNoTop(world_x, world_y, monitor_width, monitor_height) ==
  \/ world_x < BOUNDARY_SIZE
  \/ world_x >= monitor_width - BOUNDARY_SIZE
  \/ world_y >= monitor_height - BOUNDARY_SIZE

\* "if world_x < BOUNDARY_SIZE .. if world_y >= monitor_height -
\* BOUNDARY_SIZE": the value of draw_green after the four tests.
DrawGreen(world_x, world_y, monitor_width, monitor_height) ==
  \/ world_x < BOUNDARY_SIZE
  \/ world_x >= monitor_width - BOUNDARY_SIZE
  \/ world_y < BOUNDARY_SIZE
  \/ world_y >= monitor_height - BOUNDARY_SIZE

OverlayWrite(idx, x, y, world_x, world_y, monitor_width, monitor_height) ==
  [ord |-> idx, idx |-> idx, px |-> x, py |-> y,
   of |-> world_x.of \/ world_y.of,
   write |-> DrawGreen(world_x.v, world_y.v, monitor_width, monitor_height)]

\* One iteration (y, x) of the boundary loop.
OverlayPixel(pos, monitor_width, monitor_height, x, y, width) ==
  OverlayWrite(y * width + x, x, y, AddI32(pos.x, x), AddI32(pos.y, y),
               monitor_width, monitor_height)

OverlaidPixels(checks, buf, pix, bad) ==
  Written(buf, {p \in Completed(checks, pix, bad) : p.write},
          checks /\ bad # {}, GREEN)

Overlaid(checks, buf, pix) ==
  OverlaidPixels(checks, buf, pix, {p \in pix : p.of})

\* The boundary loop over the whole buffer; with overflow checks it stops at
\* the first iteration whose world coordinate overflows.
overlay(checks, buf, width, height, pos, monitor_width, monitor_height) ==
  Overlaid(checks, buf,
    {OverlayPixel(pos, monitor_width, monitor_height, x, y, width) :
       x \in 0..(width - 1), y \in 0..(height - 1)})

Begun == <<"resize", "buffer_mut", "fill", "reconcile">>

\* Lines 167-169: draw_text, then present.
PaintText(dt, text_x, text_y) ==
  [buffer |-> dt.buffer, panicked |-> dt.panicked,
   steps |-> IF dt.panicked THEN Begun \o <<"overlay">>
             ELSE Begun \o <<"overlay", "draw_text", "present">>,
   text_x |-> text_x, text_y |-> text_y, writes |-> dt.writes]

\* Lines 163-169, text_x and text_y being the two subtractions.
PaintAt(checks, ov, text_x, text_y, width) ==
  IF checks /\ (text_x.of \/ text_y.of)
    THEN [buffer |-> ov.buffer, panicked |-> TRUE,
          steps |-> Begun \o <<"overlay">>,
          text_x |-> 0, text_y |-> 0, writes |-> {}]
    ELSE PaintText(draw_text(checks, ov.buffer, text_x.v, text_y.v, width),
                   text_x.v, text_y.v)

\* Lines 158-169, ov being the outcome of the boundary loop.
PaintOver(checks, ov, width, pos, monitor_width, monitor_height) ==
  IF ov.panicked
    THEN [buffer |-> ov.buffer, panicked |-> TRUE, steps |-> Begun,
          text_x |-> 0, text_y |-> 0, writes |-> {}]
    ELSE PaintAt(checks, ov,
                 SubI32(monitor_width \div 2, pos.x),
                 SubI32((-monitor_height) - 1000, pos.y),
                 width)

\* The body of redraw for a window of width x height whose reconciled
\* position is pos: the buffer it leaves, the steps it completed, whether it
\* panicked, and its locals text_x, text_y and the glyph pixel writes.
paint(checks, width, height, pos, size) ==
  PaintOver(checks,
            overlay(checks, fill(acquire(width, height)), width, height, pos,
                    size.width, size.height),
            width, pos, size.width, size.height)

---------------------------------------------------------------------------
(* Platform: the values the collaborators can answer                       *)

MaxWidth == 3
MaxHeight == 2

\* window.inner_size(): the platform decides the size it grants a window.
Sizes == [width : 1..MaxWidth, height : 1..MaxHeight]

Monitor1 == [width |-> 640, height |-> 480]
Monitor2 == [width |-> 320, height |-> 240]
Monitors == {Monitor1, Monitor2}

\* event_loop.available_monitors()
MonitorLists == {<<>>, <<Monitor1>>, <<Monitor2, Monitor1>>}

Pos(px, py) == [x |-> px, y |-> py]

\* Window positions: the monitor's corner, astride the left/top and the
\* right/bottom threshold of Monitor1, the interior, on the first and the
\* second glyph of the message (Monitor1), two positions about 2^32/3 and
\* 2^32/4 rows above the message, and the ends of the i32 range.
Positions ==
  { Pos(0, 0), Pos(98, 99), Pos(120, 120), Pos(538, 379),
    Pos(326, -1480), Pos(341, -1474),
    Pos(326, -1431657246), Pos(326, -1073743304),
    Pos(MaxI32, MaxI32), Pos(MinI32, MinI32) }

\* window.outer_position(): Ok(position) or Err (None)
Queries == {None} \cup {Some(p) : p \in Positions}

\* Positions carried by WindowEvent::Moved
MovedPositions == {Pos(0, 0), Pos(98, 99), Pos(326, -1480)}

\* paint, tabulated over the arguments the model applies it to (merging
\* with the empty function makes TLC evaluate the table once).
PaintTable ==
  [key \in BOOLEAN \X Sizes \X (Positions \cup {DefaultPosition}) \X Monitors
     |-> paint(key[1], key[2].width, key[2].height, key[3], key[4])] @@ <<>>

Tabulated(key) == key \in DOMAIN PaintTable

Painted(checks, size, pos, monitor) ==
  IF Tabulated(<<checks, size, pos, monitor>>)
    THEN PaintTable[<<checks, size, pos, monitor>>]
    ELSE paint(checks, size.width, size.height, pos, monitor)

---------------------------------------------------------------------------
(* App                                                                     *)

NoFrame ==
  [width |-> 0, height |-> 0, query |-> None, pos |-> DefaultPosition,
   text_x |-> 0, text_y |-> 0, writes |-> {}]

\* The last event the platform delivered.
NoEvent == [type |-> "none"]

\* App::new()
Init ==
  /\ window = None
  /\ context = None
  /\ surface = None
  /\ window_position = Pos(0, 0)
  /\ monitor_size = [width |-> 0, height |-> 0]
  /\ monitors \in MonitorLists
  /\ inner_size = [width |-> 0, height |-> 0]
  /\ buffer = <<>>
  /\ frame = NoFrame
  /\ steps = <<>>
  /\ event = NoEvent
  /\ created = 0
  /\ panicked = FALSE
  /\ exited = FALSE
  /\ overflow_checks \in BOOLEAN

Running == ~panicked /\ ~exited

\* Variant of Ready that lets redraw proceed whatever the App holds.
ReadyAlways(win, surf) == TRUE

\* "if let (Some(window), Some(surface)) = (&self.window, &mut self.surface)"
Ready(win, surf) == ~is_none(win) /\ ~is_none(surf)

\* App::redraw, entered with self.window = win, self.surface = surf,
\* self.window_position = cached and self.monitor_size = mon, the window
\* having inner size size and its position query answering query.
redraw(win, surf, cached, mon, size, query) ==
  IF ~Ready(win, surf)
    THEN /\ window_position' = cached
         /\ steps' = <<>>
         /\ UNCHANGED <<buffer, frame, panicked>>
    ELSE LET current_pos == unwrap_or_default(query)
             pos == Reconcile(current_pos, cached)
             p == Painted(overflow_checks, size, pos, mon)
         IN  /\ window_position' = pos
             /\ buffer' = p.buffer
             /\ steps' = p.steps
             /\ panicked' = p.panicked
             /\ frame' = [width |-> size.width, height |-> size.height,
                          query |-> query, pos |-> pos,
                          text_x |-> p.text_x, text_y |-> p.text_y,
                          writes |-> p.writes]

\* Variant of first that answers the last element.
last(v) == IF v = <<>> THEN None ELSE Some(v[Len(v)])

\* Vec::first(): the first element, or None of an empty vector.
first(v) == IF v = <<>> THEN None ELSE Some(v[1])

\* Variant of FirstResume that sets the App up on every resumed.
FirstResumeAlways(win) == TRUE

\* "if self.window.is_none()": resumed sets the App up only then.
FirstResume(win) == is_none(win)

\* ApplicationHandler::resumed
Resumed ==
  /\ Running
  /\ event' = [type |-> "Resumed"]
  /\ IF FirstResume(window)
       THEN IF is_none(first(monitors))
              THEN \* monitors.first().unwrap() panics
                   /\ panicked' = TRUE
                   /\ steps' = <<>>
                   /\ UNCHANGED <<window, context, surface, window_position,
                                  monitor_size, inner_size, buffer, frame,
                                  created>>
              ELSE \E granted \in Sizes, q0 \in Queries, q \in Queries :
                     LET primary_monitor == unwrap(first(monitors))
                         window_size ==
                           [width |-> primary_monitor.width \div 2,
                            height |-> primary_monitor.height \div 2]
                         win == Some([id |-> created + 1,
                                      inner_size |-> window_size,
                                      resizable |-> FALSE])
                         surf == Some(created + 1)
                     IN  /\ monitor_size' = primary_monitor
                         /\ created' = created + 1
                         /\ inner_size' = granted
                         /\ window' = win
                         /\ context' = Some(created + 1)
                         /\ surface' = surf
                         /\ redraw(win, surf, unwrap_or_default(q0),
                                   primary_monitor, granted, q)
       ELSE /\ steps' = <<>>
            /\ UNCHANGED <<window, context, surface, window_position,
                           monitor_size, inner_size, buffer, frame, created,
                           panicked>>
  /\ UNCHANGED <<monitors, exited, overflow_checks>>

\* window_event(WindowEvent::CloseRequested)
CloseRequested ==
  /\ Running
  /\ event' = [type |-> "CloseRequested"]
  /\ exited' = TRUE
  /\ steps' = <<>>
  /\ UNCHANGED <<window, context, surface, window_position, monitor_size,
                 monitors, inner_size, buffer, frame, created, panicked,
                 overflow_checks>>

\* window_event(WindowEvent::RedrawRequested)
RedrawRequested ==
  /\ Running
  /\ event' = [type |-> "RedrawRequested"]
  /\ \E q \in Queries :
       redraw(window, surface, window_position, monitor_size, inner_size, q)
  /\ UNCHANGED <<window, context, surface, monitor_size, monitors,
                 inner_size, created, exited, overflow_checks>>

\* window_event(WindowEvent::Moved(position))
Moved ==
  /\ Running
  /\ \E position \in MovedPositions, q \in Queries :
       /\ event' = [type |-> "Moved", position |-> position]
       /\ redraw(window, surface, position, monitor_size, inner_size, q)
  /\ UNCHANGED <<window, context, surface, monitor_size, monitors,
                 inner_size, created, exited, overflow_checks>>

\* window_event(_): every other event, here WindowEvent::Resized(size), sent
\* when the platform changed the window's inner size.
Resized ==
  /\ Running
  /\ ~is_none(window)
  /\ \E size \in Sizes :
       /\ inner_size' = size
       /\ event' = [type |-> "Resized", size |-> size]
  /\ steps' = <<>>
  /\ UNCHANGED <<window, context, surface, window_position, monitor_size,
                 monitors, buffer, frame, created, panicked, exited,
                 overflow_checks>>

Next ==
  \/ Resumed
  \/ CloseRequested
  \/ RedrawRequested
  \/ Moved
  \/ Resized

Spec == Init /\ [][Next]_vars

---------------------------------------------------------------------------
(* draw_text and draw_char as functions of their arguments                 *)

\* Draw origins: at and just left/above the buffer, on the second and on the
\* last glyph, far outside, about 2^32/3 and 2^32/4 rows down, and the ends
\* of the i32 range.
DrawXs == {0, -6, -21, -489, 10000, MaxI32 - 486, MaxI32, MinI32}
DrawYs == {0, -2, -10000, 10000, 1431655766, 1073741824, MaxI32, MinI32}

\* Buffer lengths for a width: whole rows, and whole rows plus one cell.
DrawLens(width) ==
  {width * h : h \in 1..MaxHeight} \cup {width * h + 1 : h \in 1..MaxHeight}

\* Characters of the message drawn alone by draw_char.
DrawChars == {0, 1, LEN - 1}

DrawInit ==
  /\ window = None
  /\ context = None
  /\ surface = None
  /\ window_position = Pos(0, 0)
  /\ monitor_size = [width |-> 0, height |-> 0]
  /\ monitors = <<>>
  /\ inner_size = [width |-> 0, height |-> 0]
  /\ \E width \in 1..MaxWidth :
       \E len \in DrawLens(width), x \in DrawXs, y \in DrawYs :
         /\ buffer = [i \in 0..(len - 1) |-> BLACK]
         /\ frame = [NoFrame EXCEPT !.width = width,
                                    !.text_x = x, !.text_y = y]
  /\ steps = <<>>
  /\ event = NoEvent
  /\ created = 0
  /\ panicked = FALSE
  /\ exited = FALSE
  /\ overflow_checks \in BOOLEAN

\* Self::draw_text(&mut buffer, x, y, buffer_width)
CallDrawText ==
  /\ steps = <<>>
  /\ LET r == draw_text(overflow_checks, buffer, frame.text_x, frame.text_y,
                        frame.width)
     IN  /\ buffer' = r.buffer
         /\ panicked' = r.panicked
         /\ frame' = [frame EXCEPT !.writes = r.writes]
  /\ steps' = <<"draw_text">>
  /\ event' = [type |-> "draw_text"]
  /\ UNCHANGED <<window, context, surface, window_position, monitor_size,
                 monitors, inner_size, created, exited, overflow_checks>>

\* Self::draw_char(&mut buffer, x, y, &TEXT_BITMAPS[k], buffer_width, SCALE)
CallDrawChar ==
  /\ steps = <<>>
  /\ \E k \in DrawChars :
       LET r == draw_char(overflow_checks, buffer, frame.text_x, frame.text_y,
                          TEXT_BITMAPS[k + 1], frame.width, SCALE)
       IN  /\ buffer' = r.buffer
           /\ panicked' = r.panicked
           /\ frame' = [frame EXCEPT !.writes =
                          {[k |-> k, px |-> w.px, py |-> w.py, idx |-> w.idx] :
                             w \in r.writes}]
           /\ event' = [type |-> "draw_char", k |-> k]
  /\ steps' = <<"draw_char">>
  /\ UNCHANGED <<window, context, surface, window_position, monitor_size,
                 monitors, inner_size, created, exited, overflow_checks>>

DrawNext ==
  \/ CallDrawText
  \/ CallDrawChar

SpecDraw == DrawInit /\ [][DrawNext]_vars

---------------------------------------------------------------------------
(* index_u8 and text_to_bitmap as functions of their arguments             *)

\* u8
Bytes == 0..255

\* Bytes of the messages tried: 'H', 'i', '{', space and the digit '1'.
TextBytes == {72, 105, 123, 32, 49}

MaxTextLen == 2

\* The messages of at most MaxTextLen bytes.
Texts ==
  UNION {[1..n -> TextBytes] : n \in 0..MaxTextLen}

GlyphInit ==
  /\ window = None
  /\ context = None
  /\ surface = None
  /\ window_position = Pos(0, 0)
  /\ monitor_size = [width |-> 0, height |-> 0]
  /\ monitors = <<>>
  /\ inner_size = [width |-> 0, height |-> 0]
  /\ buffer = <<>>
  /\ frame = NoFrame
  /\ steps = <<>>
  /\ event = NoEvent
  /\ created = 0
  /\ panicked = FALSE
  /\ exited = FALSE
  /\ overflow_checks \in BOOLEAN

\* index_u8(&LETTER_DATA, element)
CallIndexU8 ==
  /\ steps = <<>>
  /\ \E element \in Bytes :
       event' = [type |-> "index_u8", element |-> element,
                 found |-> index_u8(LETTER_DATA, element)]
  /\ steps' = <<"index_u8">>
  /\ UNCHANGED <<window, context, surface, window_position, monitor_size,
                 monitors, inner_size, buffer, frame, created, panicked,
                 exited, overflow_checks>>

\* "const TEXT_BITMAPS = text_to_bitmap(&TEXT_SOURCE).unwrap()" for a message
\* text: unwrap of a None panics while the constant is evaluated, which
\* fails the build.
BuildTextBitmaps ==
  /\ steps = <<>>
  /\ \E text \in Texts :
       /\ event' = [type |-> "text_to_bitmap", text |-> text,
                    bitmaps |-> text_to_bitmap(text)]
       /\ panicked' = is_none(text_to_bitmap(text))
  /\ steps' = <<"text_to_bitmap">>
  /\ UNCHANGED <<window, context, surface, window_position, monitor_size,
                 monitors, inner_size, buffer, frame, created, exited,
                 overflow_checks>>

GlyphNext ==
  \/ CallIndexU8
  \/ BuildTextBitmaps

SpecGlyph == GlyphInit /\ [][GlyphNext]_vars

---------------------------------------------------------------------------
(* Properties                                                              *)

Uninitialized == is_none(window) /\ is_none(context) /\ is_none(surface)
Active == ~is_none(window) /\ ~is_none(context) /\ ~is_none(surface)

\* The last handler ran redraw's body / ran it to the end (present).
RedrawBegan == steps # <<>> /\ steps[1] = "resize"
RedrawCompleted == steps = Begun \o <<"overlay", "draw_text", "present">>

\* The cells of the last frame, and the window-local coordinates of a cell.
FrameCells == 0..(frame.width * frame.height - 1)
CellX(i) == i % frame.width
CellY(i) == i \div frame.width

\* Cells the glyph compositor wrote in the last frame / call.
WrittenCells == {w.idx : w \in frame.writes}

\* The world coordinate p + d of a cell is within BOUNDARY_SIZE of an edge
\* of the monitor; a coordinate beyond the i32 range is beyond the right or
\* bottom edge.
NearEdge(p, i) ==
  \/ AddI32(p.x, CellX(i)).of
  \/ AddI32(p.y, CellY(i)).of
  \/ p.x + CellX(i) < 100
  \/ p.x + CellX(i) >= monitor_size.width - 100
  \/ p.y + CellY(i) < 100
  \/ p.y + CellY(i) >= monitor_size.height - 100

\* The message's world anchor and the extent of its LEN characters.
AnchorX == monitor_size.width \div 2
AnchorY == (-monitor_size.height) - 1000
TextWidth == LEN * 6 * SCALE
TextHeight == 8 * SCALE

\* World coordinate (wx, wy) lies in the message's rectangle.
InTextRect(wx, wy) ==
  /\ wx >= AnchorX /\ wx < AnchorX + TextWidth
  /\ wy >= AnchorY /\ wy < AnchorY + TextHeight

\* World coordinate (wx, wy) lies on a scaled ink cell of the message.
InkAtWorld(wx, wy) ==
  /\ InTextRect(wx, wy)
  /\ (wx - AnchorX) % (6 * SCALE) < 5 * SCALE
  /\ TEXT_BITMAPS[((wx - AnchorX) \div (6 * SCALE)) + 1]
                 [((wy - AnchorY) \div SCALE) + 1]
                 [(((wx - AnchorX) % (6 * SCALE)) \div SCALE) + 1]

\* Cell i of the last frame is covered by glyph ink.
InkCovers(i) ==
  /\ ~AddI32(frame.pos.x, CellX(i)).of
  /\ ~AddI32(frame.pos.y, CellY(i)).of
  /\ InkAtWorld(frame.pos.x + CellX(i), frame.pos.y + CellY(i))

\* C1: when a redraw completes, the buffer has exactly width * height cells
\* and each holds one of the three palette values; no cell keeps the
\* content it had when the buffer was acquired.
C1_PaletteCoverage ==
  RedrawCompleted =>
    /\ DOMAIN buffer = FrameCells
    /\ \A i \in FrameCells : buffer[i] \in Palette /\ buffer[i] # STALE

C1_Witness ==
  /\ RedrawCompleted
  /\ frame.width * frame.height >= 4
  /\ \E i, j \in FrameCells : buffer[i] = BLACK /\ buffer[j] = GREEN

\* C2: after a redraw, every pixel not covered by glyph ink is green if and
\* only if its world coordinate is within 100 of a monitor edge, and black
\* otherwise.
C2_OverlayExact ==
  RedrawCompleted =>
    \A i \in FrameCells :
      ~InkCovers(i) =>
        buffer[i] = IF NearEdge(frame.pos, i) THEN GREEN ELSE BLACK

\* The whole window lies within BOUNDARY_SIZE of one monitor edge.
WindowInZone ==
  \/ frame.pos.x <= 100 - frame.width
  \/ frame.pos.x >= monitor_size.width - 100
  \/ frame.pos.y <= 100 - frame.height
  \/ frame.pos.y >= monitor_size.height - 100

\* C3 as claimed: when the whole window lies within BOUNDARY_SIZE of a
\* monitor edge, 100% of the buffer's pixels are green after redraw.
C3_AllGreen ==
  (RedrawCompleted /\ WindowInZone) =>
    \A i \in FrameCells : buffer[i] = GREEN

\* C3 as amended: when the whole window lies within BOUNDARY_SIZE of a
\* monitor edge, every pixel the glyph compositor did not write is green
\* and those it wrote are white; none is black.
C3_GreenOrInk ==
  (RedrawCompleted /\ WindowInZone) =>
    \A i \in FrameCells :
      buffer[i] = IF i \in WrittenCells THEN WHITE ELSE GREEN

C3_Witness ==
  /\ RedrawCompleted
  /\ WindowInZone
  /\ frame.pos.x > 100 /\ frame.pos.x < monitor_size.width - 100 - frame.width
  /\ \E i, j \in FrameCells : buffer[i] = WHITE /\ buffer[j] = GREEN

\* A draw_text or draw_char call returned or panicked.
DrawCalled == steps # <<>> /\ steps[1] \in {"draw_text", "draw_char"}

\* C4: for every origin in the i32 range, every width and every length,
\* draw_text and draw_char write only at indices 0 <= idx < buffer.len()
\* and complete without panicking.
C4_NoPanicInRange ==
  DrawCalled =>
    /\ ~panicked
    /\ \A w \in frame.writes : w.idx \in DOMAIN buffer

\* C5: a glyph pixel candidate (px, py) is written only when it lies in the
\* buffer's rectangle, and then exactly to cell py * width + px; no
\* candidate below the buffer is mapped by wrap-around to a cell.
C5_DroppedNotWrapped ==
  DrawCalled =>
    \A w \in frame.writes :
      /\ 0 <= w.px /\ w.px < frame.width
      /\ 0 <= w.py /\ w.py <= Cardinality(DOMAIN buffer)
      /\ w.py * frame.width + w.px = w.idx

\* Cell (cx, cy) lies on a scaled ink cell of character k drawn by
\* draw_text from origin (x, y): column x + 18k + 3c + dx, row y + 3r + dy.
GlyphCovers(k, cx, cy, x, y) ==
  /\ x <= cx - 6 * SCALE * k
  /\ x > cx - 6 * SCALE * k - 5 * SCALE
  /\ y <= cy
  /\ y > cy - 8 * SCALE
  /\ TEXT_BITMAPS[k + 1][((cy - y) \div SCALE) + 1]
                        [((cx - 6 * SCALE * k - x) \div SCALE) + 1]

\* C6: draw_text from origin (x, y) that returns has written, for the k-th
\* character, exactly the buffer cells of the 3x3 blocks of its ink cells,
\* the block of ink cell (r, c) starting at (x + 18k + 3c, y + 3r).
C6_GlyphPlacement ==
  (steps = <<"draw_text">> /\ ~panicked) =>
    \A k \in 0..(LEN - 1) :
      \A i \in DOMAIN buffer :
        (\E w \in frame.writes : w.k = k /\ w.idx = i)
          <=> GlyphCovers(k, CellX(i), CellY(i), frame.text_x, frame.text_y)

\* C7: the text origin of a redraw is the anchor minus the window position,
\* and a pixel of the frame is white only if its world coordinate lies in
\* the message's rectangle [mw/2, mw/2 + 28*18) x [-mh-1000, -mh-1000+24).
C7_WhiteOnlyInTextRect ==
  RedrawCompleted =>
    /\ ~SubI32(AnchorX, frame.pos.x).of =>
         frame.text_x = AnchorX - frame.pos.x
    /\ ~SubI32(AnchorY, frame.pos.y).of =>
         frame.text_y = AnchorY - frame.pos.y
    /\ \A i \in FrameCells :
         buffer[i] = WHITE =>
           /\ ~AddI32(frame.pos.x, CellX(i)).of
           /\ ~AddI32(frame.pos.y, CellY(i)).of
           /\ InTextRect(frame.pos.x + CellX(i), frame.pos.y + CellY(i))

\* C8: a redraw whose live position query answers q stores q in
\* window_position and draws the frame for q (overlay and text origin),
\* whatever was cached, also when a Moved(p) with p # q triggered it.
C8_LiveWins ==
  (RedrawBegan /\ ~is_none(frame.query)) =>
    /\ window_position = unwrap(frame.query)
    /\ frame.pos = unwrap(frame.query)
    /\ RedrawCompleted =>
         \A i \in FrameCells \ WrittenCells :
           buffer[i] = IF NearEdge(unwrap(frame.query), i)
                         THEN GREEN ELSE BLACK

C8_Witness ==
  /\ RedrawCompleted
  /\ event.type = "Moved"
  /\ ~is_none(frame.query)
  /\ unwrap(frame.query) # event.position
  /\ window_position = unwrap(frame.query)
  /\ \E i \in FrameCells : buffer[i] = BLACK

\* C9 as claimed: when the live query fails during a redraw, the frame is
\* rendered from the cached position (here the one Moved delivered) and the
\* cached value is left unchanged.
C9_CacheKept ==
  (RedrawBegan /\ is_none(frame.query) /\ event.type = "Moved") =>
    /\ frame.pos = event.position
    /\ window_position = event.position

\* C9 as amended: when the live query fails during a redraw, the position
\* defaults to (0, 0): the frame is rendered for (0, 0) and window_position
\* becomes (0, 0), whatever was cached.
C9_DefaultOrigin ==
  (RedrawBegan /\ is_none(frame.query)) =>
    /\ frame.pos = DefaultPosition
    /\ window_position = DefaultPosition
    /\ RedrawCompleted =>
         \A i \in FrameCells \ WrittenCells :
           buffer[i] = IF NearEdge(DefaultPosition, i) THEN GREEN ELSE BLACK

C9_Witness ==
  /\ RedrawCompleted
  /\ is_none(frame.query)
  /\ event.type = "Moved"
  /\ event.position # DefaultPosition
  /\ window_position = DefaultPosition

\* C10: the App is either uninitialized (window, context and surface all
\* None) or active (all three Some, one window created); it becomes active
\* only in a resumed, the first resumed that does not abort makes it active,
\* and once active no event changes or recreates the three.
C10_Lifecycle ==
  /\ [](\/ Uninitialized /\ created = 0
        \/ Active /\ created = 1)
  /\ [][/\ Active =>
             Active' /\ UNCHANGED <<window, context, surface, created>>
        /\ (Uninitialized /\ Active') => event'.type = "Resumed"
        /\ (Uninitialized /\ event'.type = "Resumed" /\ ~panicked')
             => Active']_vars

C10_Witness ==
  /\ Active
  /\ created = 1
  /\ event.type = "Resumed"
  /\ steps = <<>>

\* The platform signals that call for a new frame.
RedrawSignals == {"Resized", "Moved", "RedrawRequested"}

\* C11: in the active state every redraw signal (a resize notification, a
\* move notification or a redraw request) that the handler survives has
\* caused exactly one full render followed by exactly one present.
C11_RenderPerSignal ==
  (Active /\ ~panicked /\ event.type \in RedrawSignals) => RedrawCompleted

\* C12: monitor_size is written once, by the resumed that makes the App
\* active, with the size of the first listed monitor; no other event changes
\* it, and every completed frame's text origin and overlay are computed from
\* it.
C12_MonitorSizeOnce ==
  /\ [](/\ Uninitialized => monitor_size = [width |-> 0, height |-> 0]
        /\ Active => monitor_size = monitors[1]
        /\ RedrawCompleted =>
             /\ frame.text_x = SubI32(monitor_size.width \div 2, frame.pos.x).v
             /\ frame.text_y =
                  SubI32((-monitor_size.height) - 1000, frame.pos.y).v
             /\ \A i \in FrameCells \ WrittenCells :
                  buffer[i] = IF NearEdge(frame.pos, i) THEN GREEN ELSE BLACK)
  /\ [][monitor_size' # monitor_size =>
          (Uninitialized /\ Active' /\ event'.type = "Resumed")]_vars

C12_Witness ==
  /\ Active
  /\ monitors = <<Monitor2, Monitor1>>
  /\ monitor_size = Monitor2
  /\ event.type = "Moved"
  /\ RedrawCompleted
  /\ \E i, j \in FrameCells : buffer[i] = BLACK /\ buffer[j] = GREEN

\* The declared character set: A-Z, a-z, '{', '}', '_' and space.
Supported == (65..90) \cup (97..122) \cup {123, 125, 95, 32}

\* C13: building the glyph sequence of a message never fails: a byte
\* outside the supported set yields a blank glyph, every other byte its own
\* glyph.
C13_SilentMiss ==
  event.type = "text_to_bitmap" =>
    /\ ~panicked
    /\ ~is_none(event.bitmaps)
    /\ \A i \in 1..Len(event.text) :
         unwrap(event.bitmaps)[i] =
           IF event.text[i] \in Supported
             THEN FONT_DATA[unwrap(index_u8(LETTER_DATA, event.text[i])) + 1]
             ELSE BlankGlyph

\* The grid has 8 rows of 5 cells.
IsGrid(g) ==
  /\ DOMAIN g = 1..8
  /\ \A r \in 1..8 : DOMAIN g[r] = 1..5 /\ \A c \in 1..5 : g[r][c] \in BOOLEAN

HasInk(g) == \E r \in 1..8, c \in 1..5 : g[r][c]

\* C14: LETTER_DATA holds the 56 pairwise-distinct bytes of the declared
\* set; index_u8 answers for each of them the one index holding it, whose
\* FONT_DATA grid is 8 x 5 with ink unless the byte is the space; for every
\* other byte it answers None.
C14_LookupTotal ==
  /\ Len(LETTER_DATA) = 56
  /\ Len(FONT_DATA) = 56
  /\ \A i, j \in 1..56 : i # j => LETTER_DATA[i] # LETTER_DATA[j]
  /\ {LETTER_DATA[i] : i \in 1..56} = Supported
  /\ event.type = "index_u8" =>
       IF event.element \in Supported
         THEN /\ ~is_none(event.found)
              /\ unwrap(event.found) \in 0..55
              /\ \A j \in 0..55 :
                   LETTER_DATA[j + 1] = event.element
                     <=> j = unwrap(event.found)
              /\ IsGrid(FONT_DATA[unwrap(event.found) + 1])
              /\ HasInk(FONT_DATA[unwrap(event.found) + 1])
                   <=> event.element # 32
         ELSE is_none(event.found)

C14_Witness ==
  /\ event.type = "index_u8"
  /\ event.element = 32
  /\ event.found = Some(55)
  /\ ~HasInk(FONT_DATA[56])

\* C15: a move notification or a redraw request handled in the
\* uninitialized state acquires no buffer, writes no pixel and presents
\* nothing; the App stays uninitialized and only a move notification
\* changes window_position, to the position it carries.
C15_NothingDrawnUninitialized ==
  [][(Uninitialized /\ event'.type \in {"Moved", "RedrawRequested"}) =>
       /\ Uninitialized'
       /\ steps' = <<>>
       /\ buffer' = buffer
       /\ frame' = frame
       /\ panicked' = panicked
       /\ window_position' = IF event'.type = "Moved"
                               THEN event'.position
                               ELSE window_position]_vars

C15_Witness ==
  /\ Uninitialized
  /\ event.type = "Moved"
  /\ event.position # DefaultPosition
  /\ window_position = event.position
  /\ buffer = <<>>
  /\ steps = <<>>

\* C16: a redraw that began went through resize, buffer_mut, fill,
\* reconcile, overlay, draw_text and present, each once and in this order,
\* on a buffer of the window's inner size; in the frame presented a cell
\* covered by glyph ink is white, also in the boundary zone, and a
\* boundary-zone cell without ink is green.
C16_OrderAndLayering ==
  RedrawBegan =>
    /\ RedrawCompleted
    /\ DOMAIN buffer = 0..(inner_size.width * inner_size.height - 1)
    /\ \A i \in FrameCells :
         /\ InkCovers(i) => buffer[i] = WHITE
         /\ (~InkCovers(i) /\ NearEdge(frame.pos, i)) => buffer[i] = GREEN

=============================================================================
